---- MODULE Spec2Model ----
(***************************************************************************)
(* State-machine model of the ShopSphere admin front end: the toast        *)
(* notification queue (showToast / removeToast / expiry timers) and the    *)
(* list pages that keep a local collection in step with a remote one       *)
(* (user list with view / edit / delete / favorite, product list with      *)
(* edit).  One page is mounted at a time (variable screen); every React    *)
(* state hook of the mounted page is a variable, every handler an action,  *)
(* and every awaited fetch splits its handler into an issuing action and   *)
(* a completion action that draws the server's response from a small set.  *)
(***************************************************************************)
EXTENDS Integers, Sequences, FiniteSets, TLC

----------------------------------------------------------------------------
(* Bounds of the model *)

\* toasts whose expiry timer is armed at once
MaxArmed == 2
\* number of distinct values Math.random().toString(36).substring(7) yields
NumToastIds == 2
\* fetches and file reads in flight at once, the list fetch of the mount aside
MaxInFlight == 2
\* fields, of the opened details, of the update in flight and of the local
\* list together, that differ from what the server sent
MaxFieldChanges == 1

----------------------------------------------------------------------------
(* Values *)

\* null of a useState<T | null> hook; a value v is held as <<v>>
Null == <<>>

Some(v) == <<v>>

\* JavaScript truthiness of a string (undefined is held as "")
Truthy(s) == s # ""

\* a || b on strings
OrElse(a, b) == IF Truthy(a) THEN a ELSE b

\* the same for the texts the code validates, held as sequences of characters
TruthyText(t) == t # <<>>

OrElseText(a, b) == IF TruthyText(a) THEN a ELSE b

BadEmail == <<"b", "a", "d">>

GoodEmail == <<"n", "@", "s", ".", "i", "o">>

\* an address an <input type="email"> accepts and the regular expression of
\* the product pages does not
DotlessEmail == <<"n", "@", "s">>

BadLink == <<"s", "h", "o", "p">>

GoodLink == <<"h", "t", "t", "p", ":", "/", "/", "n", ".", "i", "o">>

\* outcomes of Math.random().toString(36).substring(7)
ToastIds == 1..NumToastIds

\* the 4000 ms of the expiry timer
ExpiryMs == 4000

EditableFields == {"fullName", "email", "mobile", "address", "gender"}

\* the fields the user types into, and what is typed
TypedFields == {"fullName", "email"}

FieldInputs(field) == IF field = "email" THEN {<<>>, BadEmail} ELSE {"", "new"}

\* the collection held by the server: an item with id, one with _id only,
\* one with neither
ServerUsers ==
  << [id |-> "1", _id |-> "", fullName |-> "Ann Lee", email |-> <<"a", "@", "x", ".", "i", "o">>,
      mobile |-> "111", address |-> "1 A St", gender |-> "female"],
     [id |-> "", _id |-> "2", fullName |-> "Bob Ray", email |-> <<"b", "@", "x", ".", "i", "o">>,
      mobile |-> "222", address |-> "2 B St", gender |-> "male"],
     [id |-> "", _id |-> "", fullName |-> "Cy Doe", email |-> <<"c", "@", "x", ".", "i", "o">>,
      mobile |-> "333", address |-> "3 C St", gender |-> "other"] >>

\* the lists a 2xx answer of admin/list may carry under userData
UserListBodies == {<<ServerUsers[1]>>, <<ServerUsers[3], ServerUsers[2]>>}

\* message field of a JSON body ("" when the body has none)
ServerMessages == {"", "locked"}

\* answers of an endpoint: the request is rejected, or it resolves with a
\* 2xx ("ok") or non-2xx ("http") status and a body that parses as JSON or not
Responses ==
  {[kind |-> "reject", json |-> FALSE, message |-> ""]}
    \cup [kind : {"ok", "http"}, json : {TRUE}, message : ServerMessages]
    \cup [kind : {"ok", "http"}, json : {FALSE}, message : {""}]

\* message of the TypeError a rejected fetch throws
FetchRejectedText == "Failed to fetch"

\* message of the SyntaxError response.json() throws on a malformed body
JsonParseText == "Unexpected end of JSON input"

----------------------------------------------------------------------------
(* State *)

VARIABLES
  screen,            \* the mounted page
  loginPending,      \* the login fetch is in flight
  redirecting,       \* window.location.href was assigned, the page not yet left
  toasts,            \* useState<Toast[]>
  timers,            \* armed setTimeout callbacks, oldest first: [handle, id]
  dismissed,         \* handles of armed timers whose toast the user closed (history)
  isLoading,
  listPending,       \* the list fetch of the mount effect is in flight
  users,
  usersUndefined,    \* users holds undefined (data.userData was missing)
  isModalOpen,
  userDetails,
  isLoadingDetails,
  detailReqs,        \* userIds of the detail fetches in flight, oldest first
  favoritedUsers,
  isFavoriting,
  favReqs,           \* favourite fetches in flight: [userId, userName]
  isUpdatingUser,
  updReqs,           \* edit fetches in flight: [id, details] of the closure
  isDeletingUser,
  delReqs,           \* delete fetches in flight: the id of the closure
  showDeleteConfirm,
  products,
  isEditModalOpen,
  productDetails,
  isLoadingProduct,
  productReqs,       \* productIds of the detail fetches in flight, oldest first
  isUpdatingProduct,
  productUpdReqs,    \* edit fetches in flight: [id, details, preview] of the closure
  editPhoto,
  editPhotoPreview,
  fileReads,         \* FileReader.readAsDataURL calls in flight: the file
  signup,            \* fullName, email, mobile, address, gender of the signup page
  signupPending,     \* the signup fetch is in flight
  newProduct,        \* name, link, email, description of the add-product page
  photo,
  photoPreview,
  photoInput,        \* the file input of the add-product form holds a file
  addPhase,          \* handleSubmit of the add-product page: idle, reading, fetching
  lastClick          \* id of the row clicked last on the mounted page (history)

toastVars == <<toasts, timers, dismissed>>
listVars == <<isLoading, listPending, users, usersUndefined>>
modalVars == <<isModalOpen, userDetails, isLoadingDetails, detailReqs>>
favVars == <<favoritedUsers, isFavoriting, favReqs>>
editVars == <<isUpdatingUser, updReqs, isDeletingUser, delReqs, showDeleteConfirm>>

prodVars == <<products, isEditModalOpen, productDetails, isLoadingProduct,
              productReqs, isUpdatingProduct, productUpdReqs, editPhoto,
              editPhotoPreview, fileReads>>
userVars == <<modalVars, favVars, editVars>>
navVars == <<screen, loginPending, redirecting>>
formVars == <<signup, signupPending, newProduct, photo, photoPreview, photoInput,
              addPhase>>

vars == <<navVars, toastVars, listVars, userVars, prodVars, formVars, lastClick>>

\* number of fetches and file reads awaiting their result
InFlight ==
  Len(detailReqs) + Len(favReqs) + Len(updReqs) + Len(delReqs)
    + Len(productReqs) + Len(productUpdReqs) + Len(fileReads)

\* another fetch may be issued within the bound
MayFetch == InFlight < MaxInFlight

----------------------------------------------------------------------------
(* NotificationQueue *)

\* prev.filter((toast) => toast.id !== id)
FilterOutId(ts, id) == SelectSeq(ts, LAMBDA t : t.id # id)

\* [...prev, { id, message, type }]; timer is the handle setTimeout returns
\* in the same call (history, the code drops it)
AppendToast(ts, id, message, type, handle) ==
  Append(ts, [id |-> id, message |-> message, type |-> type, timer |-> handle])

\* a timer handle not in use
FreeHandle ==
  CHOOSE h \in 1..(Len(timers) + 1) :
    \A k \in 1..Len(timers) : timers[k].handle # h

\* timers that may be armed at once on the mounted page: the pages with a
\* details modal or a form are explored with one toast at a time
ToastRoom ==
  IF screen \in {"list", "products", "signup", "addproduct"} THEN 1 ELSE MaxArmed

\* on those pages a handler runs once the timer of the last toast has fired:
\* the handlers never read toasts, so a handler and a removal commute
Calm == ToastRoom = 1 => timers = <<>>

\* ids that are on screen or that an armed timer will remove
IdsInUse ==
  {toasts[k].id : k \in 1..Len(toasts)} \cup {timers[k].id : k \in 1..Len(timers)}

\* what Math.random() may yield next: an id in use, or the first unused one
\* (ids are only compared for equality, so one unused id stands for all)
RandomIds == {i \in ToastIds : \A j \in 1..(i - 1) : j \in IdsInUse}

\* C6 mutant: the kind is dropped and every toast gets the default kind
ShowToastDefaultKind(message, type) ==
  /\ Len(timers) < ToastRoom
  /\ \E id \in RandomIds :
       /\ toasts' = AppendToast(toasts, id, message, "info", FreeHandle)
       /\ timers' = Append(timers, [handle |-> FreeHandle, id |-> id])
  /\ UNCHANGED dismissed

\* showToast(message, type): append the toast and arm its timer
ShowToast(message, type) ==
  /\ Len(timers) < ToastRoom
  /\ \E id \in RandomIds :
       /\ toasts' = AppendToast(toasts, id, message, type, FreeHandle)
       /\ timers' = Append(timers, [handle |-> FreeHandle, id |-> id])
  /\ UNCHANGED dismissed

NoToast == UNCHANGED toastVars

\* removeToast(toast.id) from the close button of the i-th toast shown
RemoveToast(i) ==
  /\ i \in 1..Len(toasts)
  /\ toasts' = FilterOutId(toasts, toasts[i].id)
  /\ dismissed' = dismissed \cup {toasts[i].timer}
  /\ UNCHANGED timers
  /\ UNCHANGED <<navVars, lastClick, formVars, listVars, userVars, prodVars>>

\* C18 mutant: the callback of the timer removes nothing
TimerFireKeeps ==
  /\ timers # <<>>
  /\ toasts' = toasts
  /\ timers' = Tail(timers)
  /\ dismissed' = dismissed \ {Head(timers).handle}
  /\ UNCHANGED <<navVars, lastClick, formVars, listVars, userVars, prodVars>>

\* the setTimeout callback of showToast; timers of equal delay fire in the
\* order they were armed
TimerFire ==
  /\ timers # <<>>
  /\ toasts' = FilterOutId(toasts, Head(timers).id)
  /\ timers' = Tail(timers)
  /\ dismissed' = dismissed \ {Head(timers).handle}
  /\ UNCHANGED <<navVars, lastClick, formVars, listVars, userVars, prodVars>>

----------------------------------------------------------------------------
(* User list page: loadAll *)

\* error instanceof Error ? error.message : fallback, for what fetch and
\* response.json() throw
ThrownText(r, httpText) ==
  IF r.kind = "reject" THEN FetchRejectedText
  ELSE IF r.kind = "http" THEN httpText
  ELSE JsonParseText

\* answers of admin/list: list is the userData of the body, Null when the
\* body has no userData
ListResponses ==
  {[kind |-> r.kind, json |-> r.json, message |-> r.message, list |-> l] :
     r \in Responses, l \in {Null}}
    \cup {[kind |-> "ok", json |-> TRUE, message |-> m, list |-> Some(l)] :
            m \in ServerMessages, l \in UserListBodies}

\* fetchUsers of the mount effect, from the resolution of the fetch on
FetchUsersDone(r) ==
  /\ screen = "list" /\ Calm
  /\ listPending
  /\ listPending' = FALSE
  /\ isLoading' = FALSE
  /\ IF r.kind = "ok" /\ r.json
       THEN /\ IF r.list = Null
                 THEN users' = <<>> /\ usersUndefined' = TRUE
                 ELSE users' = r.list[1] /\ usersUndefined' = FALSE
            /\ NoToast
       ELSE /\ ShowToast(ThrownText(r, "Failed to fetch users"), "error")
            /\ UNCHANGED <<users, usersUndefined>>
  /\ UNCHANGED <<navVars, lastClick, formVars, userVars, prodVars>>

----------------------------------------------------------------------------
(* User list page: rows, details modal *)

\* C3 mutant: an item without id and _id resolves to a made-up id
ResolveIdMadeUp(u) == OrElse(u.id, OrElse(u._id, "0"))

\* user.id || user._id || "" of a row; (u.id || u._id) of the list updates
ResolveId(u) == OrElse(u.id, u._id)

\* the table is rendered: !isLoading and users.length > 0 (a users that is
\* undefined throws in the render and the page is gone)
RowsShown == ~isLoading /\ ~usersUndefined /\ Len(users) > 0

\* the record admin/user/${userId} answers with
ServerDetails(userId) ==
  ServerUsers[CHOOSE k \in 1..Len(ServerUsers) : ResolveId(ServerUsers[k]) = userId]

\* number of editable fields in which d differs from what the server sent
ChangedFields(d) ==
  Cardinality({f \in EditableFields : d[f] # ServerDetails(ResolveId(d))[f]})

\* the same, summed over a list
ChangedInList(l) ==
  Cardinality({<<k, f>> \in (1..Len(l)) \X EditableFields :
                 l[k][f] # ServerDetails(ResolveId(l[k]))[f]})

\* remove the k-th element of a sequence
DropAt(s, k) == SubSeq(s, 1, k - 1) \o SubSeq(s, k + 1, Len(s))

\* handleUserClick(userId) up to its await; the row is a <tr onClick>, so it
\* takes a pointer and is covered while a modal overlay is up
HandleUserClick(i) ==
  /\ screen = "list" /\ Calm
  /\ RowsShown
  /\ ~isModalOpen /\ ~showDeleteConfirm
  /\ i \in 1..Len(users)
  /\ MayFetch
  /\ isModalOpen' = TRUE
  /\ isLoadingDetails' = TRUE
  /\ userDetails' = Null
  /\ detailReqs' = Append(detailReqs, ResolveId(users[i]))
  /\ NoToast
  /\ UNCHANGED <<navVars, formVars, listVars, favVars, editVars, prodVars>>
  /\ lastClick' = Some(ResolveId(users[i]))

\* handleUserClick from the resolution of its fetch on (k-th request in flight)
HandleUserClickDone(k, r) ==
  /\ screen = "list" /\ Calm
  /\ k \in 1..Len(detailReqs)
  /\ detailReqs' = DropAt(detailReqs, k)
  /\ isLoadingDetails' = FALSE
  /\ IF r.kind = "ok" /\ r.json
       THEN /\ userDetails' = Some(ServerDetails(detailReqs[k]))
            /\ NoToast
       ELSE /\ ShowToast(ThrownText(r, "Failed to fetch user details"), "error")
            /\ UNCHANGED userDetails
  /\ UNCHANGED isModalOpen
  /\ UNCHANGED <<navVars, lastClick, formVars, listVars, favVars, editVars, prodVars>>

\* closeModal: backdrop, X and Close buttons of the details modal
CloseModal ==
  /\ screen = "list" /\ Calm
  /\ isModalOpen
  /\ isModalOpen' = FALSE
  /\ userDetails' = Null
  /\ UNCHANGED <<isLoadingDetails, detailReqs>>
  /\ NoToast
  /\ UNCHANGED <<navVars, lastClick, formVars, listVars, favVars, editVars, prodVars>>

\* prev ? { ...prev, [field]: value } : prev
SetField(prev, field, value) ==
  IF prev = Null THEN prev ELSE Some([prev[1] EXCEPT ![field] = value])

\* handleFieldChange(field, value) from an input of the modal
HandleFieldChange(field, value) ==
  /\ screen = "list" /\ Calm
  /\ isModalOpen /\ ~isLoadingDetails /\ userDetails # Null
  /\ userDetails' = SetField(userDetails, field, value)
  /\ userDetails' # userDetails
  /\ ChangedFields(userDetails'[1]) + ChangedInList(users)
       + ChangedInList([k \in 1..Len(updReqs) |-> updReqs[k].details])
       <= MaxFieldChanges
  /\ UNCHANGED <<isModalOpen, isLoadingDetails, detailReqs>>
  /\ NoToast
  /\ UNCHANGED <<navVars, lastClick, formVars, listVars, favVars, editVars, prodVars>>

----------------------------------------------------------------------------
(* User list page: applyEdit *)

\* { ...u, fullName: userDetails.fullName || u.fullName, ... }
MergeUser(u, d) ==
  [u EXCEPT !.fullName = OrElse(d.fullName, u.fullName),
            !.email = OrElseText(d.email, u.email),
            !.mobile = OrElse(d.mobile, u.mobile),
            !.address = OrElse(d.address, u.address),
            !.gender = OrElse(d.gender, u.gender)]

\* C22 mutant: the edited copy is added after the items, which are kept
ApplyEditAppends(prev, id, d) ==
  prev \o SelectSeq([k \in 1..Len(prev) |-> MergeUser(prev[k], d)],
                    LAMBDA u : ResolveId(u) = id)

\* prev.map((u) => (u.id || u._id) === id ? { ...merged } : u)
ApplyEdit(prev, id, d) ==
  [k \in 1..Len(prev) |->
     IF ResolveId(prev[k]) = id THEN MergeUser(prev[k], d) ELSE prev[k]]

\* (data && data.message) || fallback, data being {} when the body does not
\* parse
SuccessText(r, fallback) == OrElse(IF r.json THEN r.message ELSE "", fallback)

\* C12 mutant: the message of the server is not read
FailureTextGeneric(r, fallback) ==
  IF r.kind = "reject" THEN FetchRejectedText ELSE fallback

\* errorData.message || fallback, errorData being {} when the body does not
\* parse; the message of the thrown Error
FailureText(r, fallback) ==
  IF r.kind = "reject" THEN FetchRejectedText
  ELSE OrElse(IF r.json THEN r.message ELSE "", fallback)

\* C19 mutant: neither the button nor the handler looks at isUpdatingUser
HandleUpdateUserUnguarded ==
  /\ screen = "list" /\ Calm
  /\ isModalOpen /\ ~isDeletingUser
  /\ IF userDetails = Null
       THEN UNCHANGED <<toastVars, editVars>>
       ELSE IF ~Truthy(ResolveId(userDetails[1]))
         THEN /\ ShowToast("User id is missing, cannot update.", "error")
              /\ UNCHANGED editVars
         ELSE /\ MayFetch
              /\ isUpdatingUser' = TRUE
              /\ updReqs' = Append(updReqs, [id |-> ResolveId(userDetails[1]),
                                             details |-> userDetails[1]])
              /\ UNCHANGED <<isDeletingUser, delReqs, showDeleteConfirm>>
              /\ NoToast
  /\ UNCHANGED <<navVars, lastClick, formVars, listVars, modalVars, favVars, prodVars>>

\* handleUpdateUser up to its await, from the Update button of the modal
\* footer (disabled while isUpdatingUser || isDeletingUser)
HandleUpdateUser ==
  /\ screen = "list" /\ Calm
  /\ isModalOpen /\ ~(isUpdatingUser \/ isDeletingUser)
  /\ IF userDetails = Null \/ isUpdatingUser
       THEN UNCHANGED <<toastVars, editVars>>
       ELSE IF ~Truthy(ResolveId(userDetails[1]))
         THEN /\ ShowToast("User id is missing, cannot update.", "error")
              /\ UNCHANGED editVars
         ELSE /\ MayFetch
              /\ isUpdatingUser' = TRUE
              /\ updReqs' = Append(updReqs, [id |-> ResolveId(userDetails[1]),
                                             details |-> userDetails[1]])
              /\ UNCHANGED <<isDeletingUser, delReqs, showDeleteConfirm>>
              /\ NoToast
  /\ UNCHANGED <<navVars, lastClick, formVars, listVars, modalVars, favVars, prodVars>>

\* C21 mutant: setIsUpdatingUser(false) sits in the try block, not in finally
HandleUpdateUserDoneStuck(r) ==
  /\ screen = "list" /\ Calm
  /\ updReqs # <<>>
  /\ updReqs' = Tail(updReqs)
  /\ IF r.kind = "ok"
       THEN /\ users' = ApplyEdit(users, updReqs[1].id, updReqs[1].details)
            /\ ShowToast(SuccessText(r, "User details updated successfully!"),
                         "success")
            /\ isUpdatingUser' = FALSE
       ELSE /\ ShowToast(FailureText(r, "Failed to update user"), "error")
            /\ UNCHANGED <<users, isUpdatingUser>>
  /\ isModalOpen' = FALSE
  /\ userDetails' = Null
  /\ UNCHANGED <<isLoading, listPending, usersUndefined>>
  /\ UNCHANGED <<isLoadingDetails, detailReqs>>
  /\ UNCHANGED <<isDeletingUser, delReqs, showDeleteConfirm>>
  /\ UNCHANGED <<navVars, lastClick, formVars, favVars, prodVars>>

\* handleUpdateUser from the resolution of its fetch on
HandleUpdateUserDone(r) ==
  /\ screen = "list" /\ Calm
  /\ updReqs # <<>>
  /\ updReqs' = Tail(updReqs)
  /\ IF r.kind = "ok"
       THEN /\ users' = ApplyEdit(users, updReqs[1].id, updReqs[1].details)
            /\ ShowToast(SuccessText(r, "User details updated successfully!"),
                         "success")
       ELSE /\ ShowToast(FailureText(r, "Failed to update user"), "error")
            /\ UNCHANGED users
  /\ isUpdatingUser' = FALSE
  /\ isModalOpen' = FALSE
  /\ userDetails' = Null
  /\ UNCHANGED <<isLoading, listPending, usersUndefined>>
  /\ UNCHANGED <<isLoadingDetails, detailReqs>>
  /\ UNCHANGED <<isDeletingUser, delReqs, showDeleteConfirm>>
  /\ UNCHANGED <<navVars, lastClick, formVars, favVars, prodVars>>

----------------------------------------------------------------------------
(* User list page: applyDelete *)

\* setShowDeleteConfirm(true) from the Delete button of the modal footer
OpenDeleteConfirm ==
  /\ screen = "list" /\ Calm
  /\ isModalOpen /\ ~(isDeletingUser \/ isUpdatingUser)
  /\ ~showDeleteConfirm
  /\ showDeleteConfirm' = TRUE
  /\ UNCHANGED <<isUpdatingUser, updReqs, isDeletingUser, delReqs>>
  /\ NoToast
  /\ UNCHANGED <<navVars, lastClick, formVars, listVars, modalVars, favVars, prodVars>>

\* setShowDeleteConfirm(false) from the backdrop and the X of the dialog
CancelDeleteConfirm ==
  /\ screen = "list" /\ Calm
  /\ showDeleteConfirm
  /\ showDeleteConfirm' = FALSE
  /\ UNCHANGED <<isUpdatingUser, updReqs, isDeletingUser, delReqs>>
  /\ NoToast
  /\ UNCHANGED <<navVars, lastClick, formVars, listVars, modalVars, favVars, prodVars>>

\* prev.filter((u) => (u.id || u._id) !== id)
RemoveUser(prev, id) == SelectSeq(prev, LAMBDA u : ResolveId(u) # id)

\* newSet.delete(id)
RemoveFavorite(prev, id) == prev \ {id}

\* handleDeleteUser up to its await, from the Delete User button of the
\* confirmation dialog (disabled while isDeletingUser)
HandleDeleteUser ==
  /\ screen = "list" /\ Calm
  /\ showDeleteConfirm /\ ~isDeletingUser
  /\ IF userDetails = Null \/ isDeletingUser
       THEN UNCHANGED <<toastVars, editVars>>
       ELSE IF ~Truthy(ResolveId(userDetails[1]))
         THEN /\ ShowToast("User id is missing, cannot delete.", "error")
              /\ UNCHANGED editVars
         ELSE /\ MayFetch
              /\ isDeletingUser' = TRUE
              /\ delReqs' = Append(delReqs, ResolveId(userDetails[1]))
              /\ UNCHANGED <<isUpdatingUser, updReqs, showDeleteConfirm>>
              /\ NoToast
  /\ UNCHANGED <<navVars, lastClick, formVars, listVars, modalVars, favVars, prodVars>>

\* C5 mutant: the user is taken out of the list before the answer is looked at
HandleDeleteUserDoneOptimistic(r) ==
  /\ screen = "list" /\ Calm
  /\ delReqs # <<>>
  /\ delReqs' = Tail(delReqs)
  /\ users' = RemoveUser(users, delReqs[1])
  /\ favoritedUsers' = RemoveFavorite(favoritedUsers, delReqs[1])
  /\ IF r.kind = "ok"
       THEN /\ ShowToast(SuccessText(r, "User deleted successfully!"), "success")
            /\ isModalOpen' = FALSE
            /\ userDetails' = Null
            /\ showDeleteConfirm' = FALSE
       ELSE /\ ShowToast(FailureText(r, "Failed to delete user"), "error")
            /\ UNCHANGED <<isModalOpen, userDetails, showDeleteConfirm>>
  /\ isDeletingUser' = FALSE
  /\ UNCHANGED <<isLoading, listPending, usersUndefined>>
  /\ UNCHANGED <<isLoadingDetails, detailReqs>>
  /\ UNCHANGED <<isFavoriting, favReqs>>
  /\ UNCHANGED <<isUpdatingUser, updReqs>>
  /\ UNCHANGED <<navVars, lastClick, formVars, prodVars>>

\* handleDeleteUser from the resolution of its fetch on
HandleDeleteUserDone(r) ==
  /\ screen = "list" /\ Calm
  /\ delReqs # <<>>
  /\ delReqs' = Tail(delReqs)
  /\ IF r.kind = "ok"
       THEN /\ users' = RemoveUser(users, delReqs[1])
            /\ favoritedUsers' = RemoveFavorite(favoritedUsers, delReqs[1])
            /\ ShowToast(SuccessText(r, "User deleted successfully!"), "success")
            /\ isModalOpen' = FALSE
            /\ userDetails' = Null
            /\ showDeleteConfirm' = FALSE
       ELSE /\ ShowToast(FailureText(r, "Failed to delete user"), "error")
            /\ UNCHANGED <<users, favoritedUsers, isModalOpen, userDetails,
                           showDeleteConfirm>>
  /\ isDeletingUser' = FALSE
  /\ UNCHANGED <<isLoading, listPending, usersUndefined>>
  /\ UNCHANGED <<isLoadingDetails, detailReqs>>
  /\ UNCHANGED <<isFavoriting, favReqs>>
  /\ UNCHANGED <<isUpdatingUser, updReqs>>
  /\ UNCHANGED <<navVars, lastClick, formVars, prodVars>>

----------------------------------------------------------------------------
(* User list page: toggleFavorite *)

\* truthiness of isFavoriting (string | null)
IsFavoritingTruthy(v) == v # Null /\ Truthy(v[1])

\* C8 mutant: the id is always added
ToggleFavoriteAddOnly(prev, userId) == prev \cup {userId}

\* newSet.has(userId) ? newSet.delete(userId) : newSet.add(userId)
ToggleFavorite(prev, userId) ==
  IF userId \in prev THEN prev \ {userId} ELSE prev \cup {userId}

\* handleFavorite(e, userId, userName) up to its await, from the star button
\* of the i-th row (disabled while isFavoriting === the row's id)
HandleFavorite(i) ==
  /\ screen = "list" /\ Calm
  /\ RowsShown
  /\ i \in 1..Len(users)
  /\ isFavoriting # Some(ResolveId(users[i]))
  /\ IF IsFavoritingTruthy(isFavoriting)
       THEN UNCHANGED favVars
       ELSE /\ MayFetch
            /\ isFavoriting' = Some(ResolveId(users[i]))
            /\ favReqs' = Append(favReqs, [userId |-> ResolveId(users[i]),
                                           userName |-> users[i].fullName])
            /\ UNCHANGED favoritedUsers
  /\ NoToast
  /\ UNCHANGED <<navVars, lastClick, formVars, listVars, modalVars, editVars, prodVars>>

\* handleFavorite from the resolution of its fetch on (k-th request in flight)
HandleFavoriteDone(k, r) ==
  /\ screen = "list" /\ Calm
  /\ k \in 1..Len(favReqs)
  /\ favReqs' = DropAt(favReqs, k)
  /\ IF r.kind = "ok" /\ r.json
       THEN /\ favoritedUsers' = ToggleFavorite(favoritedUsers, favReqs[k].userId)
            /\ ShowToast(OrElse(r.message,
                                favReqs[k].userName \o " added to favorites successfully!"),
                         "success")
       ELSE /\ ShowToast(IF r.kind = "ok" THEN JsonParseText
                         ELSE FailureText(r, "Failed to add to favorites"),
                         "error")
            /\ UNCHANGED favoritedUsers
  /\ isFavoriting' = Null
  /\ UNCHANGED <<navVars, lastClick, formVars, listVars, modalVars, editVars, prodVars>>

----------------------------------------------------------------------------
(* Product list page *)

Letters ==
  {"a", "b", "c", "d", "e", "f", "g", "h", "i", "j", "k", "l", "m", "n", "o",
   "p", "q", "r", "s", "t", "u", "v", "w", "x", "y", "z"}

Digits == {"0", "1", "2", "3", "4", "5", "6", "7", "8", "9"}

\* /^[^\s@]+@[^\s@]+\.[^\s@]+$/.test(t)
ValidEmail(t) ==
  \E a \in 1..Len(t), d \in 1..Len(t) :
    /\ t[a] = "@" /\ a > 1
    /\ t[d] = "." /\ d > a + 1 /\ d < Len(t)
    /\ \A k \in 1..Len(t) : (k # a => t[k] # "@") /\ t[k] # " "

\* schemes whose URL needs a host
SpecialSchemes ==
  { <<"h", "t", "t", "p">>, <<"h", "t", "t", "p", "s">>, <<"f", "t", "p">>,
    <<"w", "s">>, <<"w", "s", "s">> }

\* new URL(t) does not throw: t has a scheme, and a host where the scheme
\* needs one
ValidUrl(t) ==
  \E c \in 2..Len(t) :
    /\ t[c] = ":"
    /\ t[1] \in Letters
    /\ \A k \in 2..(c - 1) : t[k] \in Letters \cup Digits \cup {"+", "-", "."}
    /\ SubSeq(t, 1, c - 1) \in SpecialSchemes
         => \E k \in (c + 1)..Len(t) : t[k] \notin {"/", "\\"}

\* the collection held by the server
ServerProducts ==
  << [id |-> "p1", _id |-> "", name |-> "Lamp",
      link |-> <<"h", "t", "t", "p", ":", "/", "/", "l", ".", "i", "o">>,
      email |-> <<"l", "@", "s", ".", "i", "o">>,
      photo |-> "uploads/lamp.png", description |-> "A lamp"],
     [id |-> "", _id |-> "p2", name |-> "Desk",
      link |-> <<"h", "t", "t", "p", ":", "/", "/", "d", ".", "i", "o">>,
      email |-> <<"d", "@", "s", ".", "i", "o">>,
      photo |-> "", description |-> "A desk"],
     [id |-> "", _id |-> "", name |-> "Mug",
      link |-> <<"h", "t", "t", "p", ":", "/", "/", "m", ".", "i", "o">>,
      email |-> <<"m", "@", "s", ".", "i", "o">>,
      photo |-> "uploads/mug.png", description |-> "A mug"] >>

\* the lists a 2xx answer of the product list endpoint may carry
ProductListBodies == {<<ServerProducts[1], ServerProducts[2]>>, <<ServerProducts[3]>>}

\* JSON bodies of the product list endpoint: each key absent (Null) or a list
ProductListJson ==
  {[productData |-> Null, products |-> Null, data |-> Null]}
    \cup {[productData |-> Some(l), products |-> Null, data |-> Null] :
            l \in ProductListBodies}
    \cup {[productData |-> Null, products |-> Some(l), data |-> Null] :
            l \in ProductListBodies}
    \cup {[productData |-> Null, products |-> Null, data |-> Some(l)] :
            l \in ProductListBodies}

ProductListResponses ==
  {[kind |-> r.kind, json |-> r.json, message |-> r.message,
    body |-> [productData |-> Null, products |-> Null, data |-> Null]] :
     r \in {q \in Responses : ~(q.kind = "ok" /\ q.json)}}
    \cup {[kind |-> "ok", json |-> TRUE, message |-> "", body |-> b] :
            b \in ProductListJson}

\* C7 mutant: only the productData key is read
ProductListOfOneKey(data) ==
  IF data.productData # Null THEN data.productData[1] ELSE <<>>

\* data.productData || data.products || data.data || []
ProductListOf(data) ==
  IF data.productData # Null THEN data.productData[1]
  ELSE IF data.products # Null THEN data.products[1]
  ELSE IF data.data # Null THEN data.data[1]
  ELSE <<>>

\* fetchProducts of the mount effect, from the resolution of the fetch on
FetchProductsDone(r) ==
  /\ screen = "products" /\ Calm
  /\ listPending
  /\ listPending' = FALSE
  /\ isLoading' = FALSE
  /\ IF r.kind = "ok" /\ r.json
       THEN /\ products' = ProductListOf(r.body)
            /\ NoToast
       ELSE /\ ShowToast(ThrownText(r, "Failed to fetch products"), "error")
            /\ UNCHANGED products
  /\ UNCHANGED <<isEditModalOpen, productDetails, isLoadingProduct, productReqs,
                 isUpdatingProduct, productUpdReqs, editPhoto, editPhotoPreview,
                 fileReads>>
  /\ UNCHANGED <<navVars, lastClick, formVars, users, usersUndefined, userVars>>

\* the product table is rendered
ProductRowsShown == ~isLoading /\ Len(products) > 0

\* the record admin/product/${productId} answers with
ServerProduct(productId) ==
  ServerProducts[CHOOSE k \in 1..Len(ServerProducts) :
                   ResolveId(ServerProducts[k]) = productId]

ProductFields == {"name", "link", "email", "description"}

\* the fields the user types into, and what is typed
TypedProductFields == {"name", "email", "link"}

ProductInputs(field) ==
  IF field = "email" THEN {BadEmail, GoodEmail}
  ELSE IF field = "link" THEN {BadLink, GoodLink}
  ELSE {"", "new"}

ChangedProductFields(d) ==
  Cardinality({f \in ProductFields : d[f] # ServerProduct(ResolveId(d))[f]})

ChangedInProducts(l) ==
  Cardinality({<<k, f>> \in (1..Len(l)) \X ProductFields :
                 l[k][f] # ServerProduct(ResolveId(l[k]))[f]})

\* handleEditClick(productId) up to its await, from the Edit button of the
\* i-th row
HandleEditClick(i) ==
  /\ screen = "products" /\ Calm
  /\ ProductRowsShown
  /\ i \in 1..Len(products)
  /\ MayFetch
  /\ isEditModalOpen' = TRUE
  /\ isLoadingProduct' = TRUE
  /\ productDetails' = Null
  /\ editPhoto' = Null
  /\ editPhotoPreview' = ""
  /\ productReqs' = Append(productReqs, ResolveId(products[i]))
  /\ UNCHANGED <<products, isUpdatingProduct, productUpdReqs, fileReads>>
  /\ NoToast
  /\ UNCHANGED <<navVars, formVars, listVars, userVars>>
  /\ lastClick' = Some(ResolveId(products[i]))

\* handleEditClick from the resolution of its fetch on (k-th request in flight)
HandleEditClickDone(k, r) ==
  /\ screen = "products" /\ Calm
  /\ k \in 1..Len(productReqs)
  /\ productReqs' = DropAt(productReqs, k)
  /\ isLoadingProduct' = FALSE
  /\ IF r.kind = "ok" /\ r.json
       THEN /\ productDetails' = Some(ServerProduct(productReqs[k]))
            /\ editPhotoPreview' =
                 IF Truthy(ServerProduct(productReqs[k]).photo)
                   THEN ServerProduct(productReqs[k]).photo
                   ELSE editPhotoPreview
            /\ NoToast
       ELSE /\ ShowToast(ThrownText(r, "Failed to fetch product details"), "error")
            /\ UNCHANGED <<productDetails, editPhotoPreview>>
  /\ UNCHANGED <<products, isEditModalOpen, isUpdatingProduct, productUpdReqs,
                 editPhoto, fileReads>>
  /\ UNCHANGED <<navVars, lastClick, formVars, listVars, userVars>>

\* closeEditModal: backdrop, X and Cancel buttons of the edit modal
CloseEditModal ==
  /\ screen = "products" /\ Calm
  /\ isEditModalOpen
  /\ isEditModalOpen' = FALSE
  /\ productDetails' = Null
  /\ editPhoto' = Null
  /\ editPhotoPreview' = ""
  /\ UNCHANGED <<products, isLoadingProduct, productReqs, isUpdatingProduct,
                 productUpdReqs, fileReads>>
  /\ NoToast
  /\ UNCHANGED <<navVars, lastClick, formVars, listVars, userVars>>

\* the inputs of the edit modal are rendered
ProductFormShown == isEditModalOpen /\ ~isLoadingProduct /\ productDetails # Null

\* handleFieldChange(field, value) from an input of the edit modal
HandleProductFieldChange(field, value) ==
  /\ screen = "products" /\ Calm
  /\ ProductFormShown
  /\ productDetails' = SetField(productDetails, field, value)
  /\ productDetails' # productDetails
  /\ ChangedProductFields(productDetails'[1]) + ChangedInProducts(products)
       + ChangedInProducts([k \in 1..Len(productUpdReqs) |->
                              productUpdReqs[k].details])
       <= MaxFieldChanges
  /\ UNCHANGED <<products, isEditModalOpen, isLoadingProduct, productReqs,
                 isUpdatingProduct, productUpdReqs, editPhoto, editPhotoPreview,
                 fileReads>>
  /\ NoToast
  /\ UNCHANGED <<navVars, lastClick, formVars, listVars, userVars>>

\* 5 * 1024 * 1024
MaxPhotoBytes == 5242880

ValidPhotoTypes == {"image/jpeg", "image/jpg", "image/png"}

\* the files the user may pick
Files ==
  { [name |-> "new.png", type |-> "image/png", size |-> 1024],
    [name |-> "doc.pdf", type |-> "application/pdf", size |-> 1024],
    [name |-> "huge.png", type |-> "image/png", size |-> MaxPhotoBytes + 1] }

\* reader.result of readAsDataURL(file)
DataUrl(file) == "data:" \o file.type \o ";base64," \o file.name

\* handleEditPhotoChange(e) with e.target.files[0] = file
HandleEditPhotoChange(file) ==
  /\ screen = "products" /\ Calm
  /\ ProductFormShown
  /\ IF file.type \notin ValidPhotoTypes
       THEN /\ ShowToast("Please upload a valid image file (JPG, PNG, or JPEG).",
                         "error")
            /\ UNCHANGED <<editPhoto, fileReads>>
       ELSE IF file.size > MaxPhotoBytes
         THEN /\ ShowToast("Image size should be less than 5MB.", "error")
              /\ UNCHANGED <<editPhoto, fileReads>>
         ELSE /\ MayFetch
              /\ editPhoto' = Some(file)
              /\ fileReads' = Append(fileReads, file)
              /\ NoToast
  /\ UNCHANGED <<products, isEditModalOpen, productDetails, isLoadingProduct,
                 productReqs, isUpdatingProduct, productUpdReqs, editPhotoPreview>>
  /\ UNCHANGED <<navVars, lastClick, formVars, listVars, userVars>>

\* reader.onloadend of the k-th read in flight
FileReadDone(k) ==
  /\ screen = "products" /\ Calm
  /\ k \in 1..Len(fileReads)
  /\ fileReads' = DropAt(fileReads, k)
  /\ editPhotoPreview' = DataUrl(fileReads[k])
  /\ UNCHANGED <<products, isEditModalOpen, productDetails, isLoadingProduct,
                 productReqs, isUpdatingProduct, productUpdReqs, editPhoto>>
  /\ NoToast
  /\ UNCHANGED <<navVars, lastClick, formVars, listVars, userVars>>

\* { ...p, name: productDetails.name || p.name, ...,
\*   photo: editPhotoPreview || productDetails.photo || p.photo }
MergeProduct(p, d, preview) ==
  [p EXCEPT !.name = OrElse(d.name, p.name),
            !.link = OrElseText(d.link, p.link),
            !.email = OrElseText(d.email, p.email),
            !.description = OrElse(d.description, p.description),
            !.photo = OrElse(preview, OrElse(d.photo, p.photo))]

\* prev.map((p) => (p.id || p._id) === id ? { ...merged } : p)
ApplyProductEdit(prev, id, d, preview) ==
  [k \in 1..Len(prev) |->
     IF ResolveId(prev[k]) = id THEN MergeProduct(prev[k], d, preview)
     ELSE prev[k]]

\* the toast of the first validation of handleUpdateProduct that d fails,
\* "" when d passes them all
ProductValidationError(d) ==
  IF ~Truthy(ResolveId(d)) THEN "Product id is missing, cannot update."
  ELSE IF ~Truthy(d.name) \/ ~TruthyText(d.link) \/ ~TruthyText(d.email)
            \/ ~Truthy(d.description)
    THEN "Please fill in all required fields."
  ELSE IF ~ValidEmail(d.email) THEN "Please enter a valid email address."
  ELSE IF ~ValidUrl(d.link) THEN "Please enter a valid URL for the link field."
  ELSE ""

\* handleUpdateProduct up to its await, from the Update button of the modal
\* footer (rendered when productDetails is set, disabled while
\* isUpdatingProduct)
HandleUpdateProduct ==
  /\ screen = "products" /\ Calm
  /\ isEditModalOpen /\ productDetails # Null /\ ~isUpdatingProduct
  /\ IF productDetails = Null \/ isUpdatingProduct
       THEN UNCHANGED <<toastVars, isUpdatingProduct, productUpdReqs>>
       ELSE IF ProductValidationError(productDetails[1]) # ""
         THEN /\ ShowToast(ProductValidationError(productDetails[1]), "error")
              /\ UNCHANGED <<isUpdatingProduct, productUpdReqs>>
         ELSE /\ MayFetch
              /\ isUpdatingProduct' = TRUE
              /\ productUpdReqs' =
                   Append(productUpdReqs,
                          [id |-> ResolveId(productDetails[1]),
                           details |-> productDetails[1],
                           photo |-> editPhoto,
                           preview |-> editPhotoPreview])
              /\ NoToast
  /\ UNCHANGED <<products, isEditModalOpen, productDetails, isLoadingProduct,
                 productReqs, editPhoto, editPhotoPreview, fileReads>>
  /\ UNCHANGED <<navVars, lastClick, formVars, listVars, userVars>>

\* handleUpdateProduct from the resolution of its fetch on
HandleUpdateProductDone(r) ==
  /\ screen = "products" /\ Calm
  /\ productUpdReqs # <<>>
  /\ productUpdReqs' = Tail(productUpdReqs)
  /\ IF r.kind = "ok"
       THEN /\ products' = ApplyProductEdit(products, productUpdReqs[1].id,
                                            productUpdReqs[1].details,
                                            productUpdReqs[1].preview)
            /\ ShowToast(SuccessText(r, "Product updated successfully!"), "success")
            /\ isEditModalOpen' = FALSE
            /\ productDetails' = Null
            /\ editPhoto' = Null
            /\ editPhotoPreview' = ""
       ELSE /\ ShowToast(FailureText(r, "Failed to update product"), "error")
            /\ UNCHANGED <<products, isEditModalOpen, productDetails, editPhoto,
                           editPhotoPreview>>
  /\ isUpdatingProduct' = FALSE
  /\ UNCHANGED <<isLoadingProduct, productReqs, fileReads>>
  /\ UNCHANGED <<navVars, lastClick, formVars, listVars, userVars>>

----------------------------------------------------------------------------
(* Login page *)

\* handleSubmit up to the resolution of its fetch, from the form (the submit
\* button is disabled while isLoading)
HandleSubmit ==
  /\ screen = "login"
  /\ ~isLoading
  /\ isLoading' = TRUE
  /\ loginPending' = TRUE
  /\ UNCHANGED <<screen, redirecting>>
  /\ NoToast
  /\ UNCHANGED <<listPending, users, usersUndefined, userVars, prodVars, formVars>>
  /\ UNCHANGED lastClick

\* message of the Error the promise chain of handleSubmit ends with
LoginErrorText(r) ==
  IF r.kind = "reject" THEN FetchRejectedText
  ELSE IF ~r.json THEN JsonParseText
  ELSE OrElse(OrElse(r.message, "Login failed"),
              "An error occurred. Please try again.")

\* the .then / .catch callbacks of handleSubmit
HandleSubmitDone(r) ==
  /\ screen = "login"
  /\ loginPending
  /\ loginPending' = FALSE
  /\ isLoading' = FALSE
  /\ IF r.kind = "ok" /\ r.json
       THEN /\ ShowToast("Login successful! ", "success")
            /\ redirecting' = TRUE
       ELSE /\ ShowToast(LoginErrorText(r), "error")
            /\ UNCHANGED redirecting
  /\ UNCHANGED screen
  /\ UNCHANGED <<listPending, users, usersUndefined, userVars, prodVars, formVars>>
  /\ UNCHANGED lastClick

\* the pages whose mount effect fetches a list
ListScreens == {"list", "products", "users", "catalog"}

\* useState("") of the five fields of the signup page
EmptySignup ==
  [fullName |-> "", email |-> <<>>, mobile |-> "", address |-> "", gender |-> ""]

\* useState("") of the text fields of the add-product page
EmptyProduct == [name |-> "", link |-> <<>>, email |-> <<>>, description |-> ""]

\* the state of a page right after its mount
Mounted(page) ==
  /\ screen = page
  /\ loginPending = FALSE
  /\ redirecting = FALSE
  /\ toasts = <<>>
  /\ timers = <<>>
  /\ dismissed = {}
  /\ isLoading = (page \in ListScreens)
  /\ listPending = (page \in ListScreens)
  /\ users = <<>>
  /\ usersUndefined = FALSE
  /\ isModalOpen = FALSE
  /\ userDetails = Null
  /\ isLoadingDetails = FALSE
  /\ detailReqs = <<>>
  /\ favoritedUsers = {}
  /\ isFavoriting = Null
  /\ favReqs = <<>>
  /\ isUpdatingUser = FALSE
  /\ updReqs = <<>>
  /\ isDeletingUser = FALSE
  /\ delReqs = <<>>
  /\ showDeleteConfirm = FALSE
  /\ products = <<>>
  /\ isEditModalOpen = FALSE
  /\ productDetails = Null
  /\ isLoadingProduct = FALSE
  /\ productReqs = <<>>
  /\ isUpdatingProduct = FALSE
  /\ productUpdReqs = <<>>
  /\ editPhoto = Null
  /\ editPhotoPreview = ""
  /\ fileReads = <<>>
  /\ signup = EmptySignup
  /\ signupPending = FALSE
  /\ newProduct = EmptyProduct
  /\ photo = Null
  /\ photoPreview = ""
  /\ photoInput = FALSE
  /\ addPhase = "idle"
  /\ lastClick = Null

\* window.location.href = "/admin/list" takes effect: the login page and its
\* timers are gone and the user list page mounts
Redirect ==
  /\ screen = "login"
  /\ redirecting
  /\ screen' = "list"
  /\ loginPending' = FALSE
  /\ redirecting' = FALSE
  /\ toasts' = <<>>
  /\ timers' = <<>>
  /\ dismissed' = {}
  /\ isLoading' = TRUE
  /\ listPending' = TRUE
  /\ users' = <<>>
  /\ usersUndefined' = FALSE
  /\ isModalOpen' = FALSE
  /\ userDetails' = Null
  /\ isLoadingDetails' = FALSE
  /\ detailReqs' = <<>>
  /\ favoritedUsers' = {}
  /\ isFavoriting' = Null
  /\ favReqs' = <<>>
  /\ isUpdatingUser' = FALSE
  /\ updReqs' = <<>>
  /\ isDeletingUser' = FALSE
  /\ delReqs' = <<>>
  /\ showDeleteConfirm' = FALSE
  /\ products' = <<>>
  /\ isEditModalOpen' = FALSE
  /\ productDetails' = Null
  /\ isLoadingProduct' = FALSE
  /\ productReqs' = <<>>
  /\ isUpdatingProduct' = FALSE
  /\ productUpdReqs' = <<>>
  /\ editPhoto' = Null
  /\ editPhotoPreview' = ""
  /\ fileReads' = <<>>
  /\ UNCHANGED formVars
  /\ lastClick' = Null

----------------------------------------------------------------------------
(* Signup page *)

\* what is typed into the fields of the signup form; a radio button of the
\* gender group cannot be unchecked
SignupInputs(field) ==
  IF field = "email" THEN {<<>>, DotlessEmail, GoodEmail}
  ELSE IF field = "gender" THEN {"female"}
  ELSE {"", "new"}

\* setFullName, setEmail, setMobile, setAddress, setGender from the inputs
HandleSignupFieldChange(field, value) ==
  /\ screen = "signup" /\ Calm
  /\ signup[field] # value
  /\ signup' = [signup EXCEPT ![field] = value]
  /\ UNCHANGED <<signupPending, newProduct, photo, photoPreview, photoInput,
                 addPhase>>
  /\ NoToast
  /\ UNCHANGED <<navVars, lastClick, listVars, userVars, prodVars>>

\* what <input type="email"> lets through: one @ with text on both sides
BrowserValidEmail(t) ==
  \E a \in 2..(Len(t) - 1) :
    /\ t[a] = "@"
    /\ \A k \in 1..Len(t) : (k # a => t[k] # "@") /\ t[k] # " "

\* the browser fires the submit event of the signup form: the required
\* inputs are filled and the email input is valid (the radio group is not
\* required)
SignupFormValid ==
  /\ signup.fullName # "" /\ signup.mobile # "" /\ signup.address # ""
  /\ signup.email # <<>> /\ BrowserValidEmail(signup.email)

\* handleSubmit of the signup page up to its fetch (the submit button is
\* disabled while isLoading)
SignupHandleSubmit ==
  /\ screen = "signup" /\ Calm
  /\ ~isLoading /\ SignupFormValid
  /\ IF ~(/\ Truthy(signup.fullName) /\ TruthyText(signup.email)
          /\ Truthy(signup.mobile) /\ Truthy(signup.address)
          /\ Truthy(signup.gender))
       THEN /\ ShowToast("Please fill in all required fields.", "error")
            /\ UNCHANGED <<isLoading, signupPending>>
       ELSE /\ ~signupPending
            /\ isLoading' = TRUE
            /\ signupPending' = TRUE
            /\ NoToast
  /\ UNCHANGED <<signup, newProduct, photo, photoPreview, photoInput, addPhase>>
  /\ UNCHANGED <<navVars, lastClick, listPending, users, usersUndefined, userVars, prodVars>>

\* message of the Error the promise chain of the signup ends with
SignupErrorText(r) ==
  IF r.kind = "reject" THEN FetchRejectedText
  ELSE IF ~r.json THEN JsonParseText
  ELSE OrElse(OrElse(r.message, "Signup failed"),
              "An error occurred. Please try again")

\* the .then / .catch callbacks of the signup; showToast(data.message) takes
\* the default kind, and data.message is undefined (held as "") when the
\* body has no message
SignupHandleSubmitDone(r) ==
  /\ screen = "signup" /\ Calm
  /\ signupPending
  /\ signupPending' = FALSE
  /\ isLoading' = FALSE
  /\ IF r.kind = "ok" /\ r.json
       THEN /\ ShowToast(r.message, "info")
            /\ signup' = EmptySignup
            /\ redirecting' = TRUE
       ELSE /\ ShowToast(SignupErrorText(r), "error")
            /\ UNCHANGED <<signup, redirecting>>
  /\ UNCHANGED <<screen, loginPending>>
  /\ UNCHANGED <<newProduct, photo, photoPreview, photoInput, addPhase>>
  /\ UNCHANGED <<listPending, users, usersUndefined, userVars, prodVars>>
  /\ UNCHANGED lastClick

\* window.location.href = "/" takes effect 1500 ms after the signup: the
\* signup page, its timers and its requests are gone and the login page mounts
SignupRedirect ==
  /\ screen = "signup"
  /\ redirecting
  /\ screen' = "login"
  /\ redirecting' = FALSE
  /\ toasts' = <<>>
  /\ timers' = <<>>
  /\ dismissed' = {}
  /\ isLoading' = FALSE
  /\ signup' = EmptySignup
  /\ signupPending' = FALSE
  /\ UNCHANGED <<loginPending, listPending, users, usersUndefined>>
  /\ UNCHANGED <<newProduct, photo, photoPreview, photoInput, addPhase>>
  /\ UNCHANGED <<userVars, prodVars>>
  /\ UNCHANGED lastClick

----------------------------------------------------------------------------
(* Add-product page *)

NewProductFields == {"name", "link", "email", "description"}

\* what is typed into the text fields of the add-product form
NewProductInputs(field) ==
  IF field = "email" THEN {<<>>, DotlessEmail, GoodEmail}
  ELSE IF field = "link" THEN {<<>>, BadLink, GoodLink}
  ELSE {"", "new"}

\* setName, setLink, setEmail, setDescription from the inputs
HandleNewProductFieldChange(field, value) ==
  /\ screen = "addproduct" /\ Calm
  /\ newProduct[field] # value
  /\ newProduct' = [newProduct EXCEPT ![field] = value]
  /\ UNCHANGED <<signup, signupPending, photo, photoPreview, photoInput, addPhase>>
  /\ NoToast
  /\ UNCHANGED <<navVars, lastClick, listVars, userVars, prodVars>>

\* handlePhotoChange(e) with e.target.files[0] = file; the file stays in the
\* input when the handler refuses it
HandlePhotoChange(file) ==
  /\ screen = "addproduct" /\ Calm
  /\ photoInput' = TRUE
  /\ IF file.type \notin ValidPhotoTypes
       THEN /\ ShowToast("Please upload a valid image file (JPG, PNG, or JPEG).",
                         "error")
            /\ UNCHANGED <<photo, fileReads>>
       ELSE IF file.size > MaxPhotoBytes
         THEN /\ ShowToast("Image size should be less than 5MB.", "error")
              /\ UNCHANGED <<photo, fileReads>>
         ELSE /\ MayFetch
              /\ photo' = Some(file)
              /\ fileReads' = Append(fileReads, file)
              /\ NoToast
  /\ UNCHANGED <<signup, signupPending, newProduct, photoPreview, addPhase>>
  /\ UNCHANGED <<products, isEditModalOpen, productDetails, isLoadingProduct,
                 productReqs, isUpdatingProduct, productUpdReqs, editPhoto,
                 editPhotoPreview>>
  /\ UNCHANGED <<navVars, lastClick, listVars, userVars>>

\* reader.onloadend of the k-th preview read in flight
PhotoReadDone(k) ==
  /\ screen = "addproduct" /\ Calm
  /\ k \in 1..Len(fileReads)
  /\ fileReads' = DropAt(fileReads, k)
  /\ photoPreview' = DataUrl(fileReads[k])
  /\ UNCHANGED <<signup, signupPending, newProduct, photo, photoInput, addPhase>>
  /\ UNCHANGED <<products, isEditModalOpen, productDetails, isLoadingProduct,
                 productReqs, isUpdatingProduct, productUpdReqs, editPhoto,
                 editPhotoPreview>>
  /\ NoToast
  /\ UNCHANGED <<navVars, lastClick, listVars, userVars>>

\* the browser fires the submit event of the add-product form: the required
\* inputs, the file input among them, are filled and the url and email
\* inputs are valid
NewProductFormValid ==
  /\ newProduct.name # "" /\ newProduct.description # ""
  /\ newProduct.link # <<>> /\ ValidUrl(newProduct.link)
  /\ newProduct.email # <<>> /\ BrowserValidEmail(newProduct.email)
  /\ photoInput

\* the toast of the first check of handleSubmit that fails, "" when all pass
NewProductValidationError ==
  IF ~(/\ Truthy(newProduct.name) /\ TruthyText(newProduct.link)
       /\ TruthyText(newProduct.email) /\ photo # Null
       /\ Truthy(newProduct.description))
    THEN "Please fill in all required fields."
  ELSE IF ~ValidEmail(newProduct.email)
    THEN "Please enter a valid email address."
  ELSE IF ~ValidUrl(newProduct.link)
    THEN "Please enter a valid URL for the link field."
  ELSE ""

\* handleSubmit of the add-product page up to its first await (the submit
\* button is disabled while isLoading)
AddProductHandleSubmit ==
  /\ screen = "addproduct" /\ Calm
  /\ ~isLoading /\ NewProductFormValid
  /\ IF NewProductValidationError # ""
       THEN /\ ShowToast(NewProductValidationError, "error")
            /\ UNCHANGED <<isLoading, addPhase>>
       ELSE /\ addPhase = "idle"
            /\ isLoading' = TRUE
            /\ addPhase' = "reading"
            /\ NoToast
  /\ UNCHANGED <<signup, signupPending, newProduct, photo, photoPreview, photoInput>>
  /\ UNCHANGED <<navVars, lastClick, listPending, users, usersUndefined, userVars, prodVars>>

\* the FileReader of handleSubmit ends: onloadend resolves the promise and
\* the fetch is issued, onerror rejects it with an event, which is not an Error
AddProductPhotoRead(loaded) ==
  /\ screen = "addproduct" /\ Calm
  /\ addPhase = "reading"
  /\ IF loaded
       THEN /\ addPhase' = "fetching"
            /\ NoToast
            /\ UNCHANGED isLoading
       ELSE /\ addPhase' = "idle"
            /\ isLoading' = FALSE
            /\ ShowToast("An error occurred. Please try again", "error")
  /\ UNCHANGED <<signup, signupPending, newProduct, photo, photoPreview, photoInput>>
  /\ UNCHANGED <<navVars, lastClick, listPending, users, usersUndefined, userVars, prodVars>>

\* message of the Error handleSubmit catches after its fetch: response.json()
\* is awaited without a catch on both branches
AddProductErrorText(r) ==
  IF r.kind = "reject" THEN FetchRejectedText
  ELSE IF ~r.json THEN JsonParseText
  ELSE OrElse(r.message, "Failed to add product. Please try again")

\* handleSubmit of the add-product page from the resolution of its fetch on
AddProductHandleSubmitDone(r) ==
  /\ screen = "addproduct" /\ Calm
  /\ addPhase = "fetching"
  /\ addPhase' = "idle"
  /\ isLoading' = FALSE
  /\ IF r.kind = "ok" /\ r.json
       THEN /\ ShowToast(OrElse(r.message, "Product added successfully!"), "success")
            /\ newProduct' = EmptyProduct
            /\ photo' = Null
            /\ photoPreview' = ""
            /\ photoInput' = FALSE
       ELSE /\ ShowToast(AddProductErrorText(r), "error")
            /\ UNCHANGED <<newProduct, photo, photoPreview, photoInput>>
  /\ UNCHANGED <<signup, signupPending>>
  /\ UNCHANGED <<navVars, lastClick, listPending, users, usersUndefined, userVars, prodVars>>

----------------------------------------------------------------------------
(* Read-only list pages *)

\* fetchUsers of the mount effect of the read-only user table, from the
\* resolution of the fetch on
UsersTableFetchDone(r) ==
  /\ screen = "users"
  /\ listPending
  /\ listPending' = FALSE
  /\ isLoading' = FALSE
  /\ IF r.kind = "ok" /\ r.json
       THEN /\ IF r.list = Null
                 THEN users' = <<>> /\ usersUndefined' = TRUE
                 ELSE users' = r.list[1] /\ usersUndefined' = FALSE
            /\ NoToast
       ELSE /\ ShowToast(ThrownText(r, "Failed to fetch users"), "error")
            /\ UNCHANGED <<users, usersUndefined>>
  /\ UNCHANGED <<navVars, lastClick, formVars, userVars, prodVars>>

\* fetchProducts of the mount effect of the read-only product table, from the
\* resolution of the fetch on
ProductsTableFetchDone(r) ==
  /\ screen = "catalog"
  /\ listPending
  /\ listPending' = FALSE
  /\ isLoading' = FALSE
  /\ IF r.kind = "ok" /\ r.json
       THEN /\ products' = ProductListOf(r.body)
            /\ NoToast
       ELSE /\ ShowToast(ThrownText(r, "Failed to fetch products"), "error")
            /\ UNCHANGED products
  /\ UNCHANGED <<isEditModalOpen, productDetails, isLoadingProduct, productReqs,
                 isUpdatingProduct, productUpdReqs, editPhoto, editPhotoPreview,
                 fileReads>>
  /\ UNCHANGED <<navVars, lastClick, formVars, users, usersUndefined, userVars>>

----------------------------------------------------------------------------

Screens == {"login", "list", "products", "users", "catalog", "signup", "addproduct"}

Init == \E page \in Screens : Mounted(page)

Next ==
  \/ \E r \in ListResponses : FetchUsersDone(r)
  \/ \E i \in 1..Len(users) : HandleUserClick(i)
  \/ \E k \in 1..Len(detailReqs), r \in Responses : HandleUserClickDone(k, r)
  \/ CloseModal
  \/ \E f \in TypedFields : \E v \in FieldInputs(f) : HandleFieldChange(f, v)
  \/ HandleUpdateUser
  \/ \E r \in Responses : HandleUpdateUserDone(r)
  \/ OpenDeleteConfirm
  \/ CancelDeleteConfirm
  \/ HandleDeleteUser
  \/ \E r \in Responses : HandleDeleteUserDone(r)
  \/ \E i \in 1..Len(users) : HandleFavorite(i)
  \/ \E k \in 1..Len(favReqs), r \in Responses : HandleFavoriteDone(k, r)
  \/ \E r \in ProductListResponses : FetchProductsDone(r)
  \/ \E i \in 1..Len(products) : HandleEditClick(i)
  \/ \E k \in 1..Len(productReqs), r \in Responses : HandleEditClickDone(k, r)
  \/ CloseEditModal
  \/ \E f \in TypedProductFields : \E v \in ProductInputs(f) :
       HandleProductFieldChange(f, v)
  \/ \E file \in Files : HandleEditPhotoChange(file)
  \/ \E k \in 1..Len(fileReads) : FileReadDone(k)
  \/ HandleUpdateProduct
  \/ \E r \in Responses : HandleUpdateProductDone(r)
  \/ \E r \in ListResponses : UsersTableFetchDone(r)
  \/ \E r \in ProductListResponses : ProductsTableFetchDone(r)
  \/ HandleSubmit
  \/ \E r \in Responses : HandleSubmitDone(r)
  \/ Redirect
  \/ \E f \in EditableFields : \E v \in SignupInputs(f) :
       HandleSignupFieldChange(f, v)
  \/ SignupHandleSubmit
  \/ \E r \in Responses : SignupHandleSubmitDone(r)
  \/ SignupRedirect
  \/ \E f \in NewProductFields : \E v \in NewProductInputs(f) :
       HandleNewProductFieldChange(f, v)
  \/ \E file \in Files : HandlePhotoChange(file)
  \/ \E k \in 1..Len(fileReads) : PhotoReadDone(k)
  \/ AddProductHandleSubmit
  \/ \E loaded \in BOOLEAN : AddProductPhotoRead(loaded)
  \/ \E r \in Responses : AddProductHandleSubmitDone(r)
  \/ \E i \in 1..Len(toasts) : RemoveToast(i)
  \/ TimerFire

Spec == Init /\ [][Next]_vars

\* the browser runs the callback of every armed timer once its delay is over
FairSpec == Init /\ [][Next]_vars /\ WF_vars(TimerFire)

----------------------------------------------------------------------------
(* Properties *)

\* a step of handleDeleteUser that got a 2xx answer
DeleteSucceeds == \E r \in Responses : r.kind = "ok" /\ HandleDeleteUserDone(r)

\* C1: every successful delete removes exactly one item of users, the one
\* whose resolved id is the deleted id, so the length drops by one and the
\* other items keep their order, and the id is not in favoritedUsers after it
DeleteRemovesExactlyOne ==
  [][DeleteSucceeds =>
       /\ Len(users') = Len(users) - 1
       /\ \E k \in 1..Len(users) :
            /\ ResolveId(users[k]) = delReqs[1]
            /\ users' = DropAt(users, k)
       /\ delReqs[1] \notin favoritedUsers']_vars

\* C2: at most one favorite toggle is in flight at any time, whatever id the
\* row passes, the empty string of a row without id included
OneFavoriteInFlight == Len(favReqs) <= 1

\* the step pushed exactly one toast, of kind error, after the ones shown
PushedOneError ==
  /\ Len(toasts') = Len(toasts) + 1
  /\ SubSeq(toasts', 1, Len(toasts)) = toasts
  /\ toasts'[Len(toasts')].type = "error"

\* the requests in flight of the page
AllReqs ==
  <<detailReqs, favReqs, updReqs, delReqs, productReqs, productUpdReqs>>

\* the in-progress flags of the page
AllFlags ==
  <<isUpdatingUser, isDeletingUser, isFavoriting, isUpdatingProduct>>

\* handleUpdateUser runs on details that have neither id nor _id
EmptyIdUserEdit ==
  /\ userDetails # Null
  /\ userDetails[1].id = "" /\ userDetails[1]._id = ""
  /\ HandleUpdateUser

\* handleDeleteUser runs on details that have neither id nor _id
EmptyIdUserDelete ==
  /\ userDetails # Null
  /\ userDetails[1].id = "" /\ userDetails[1]._id = ""
  /\ HandleDeleteUser

\* handleUpdateProduct runs on details that have neither id nor _id
EmptyIdProductEdit ==
  /\ productDetails # Null
  /\ productDetails[1].id = "" /\ productDetails[1]._id = ""
  /\ HandleUpdateProduct

\* C3: a user edit, a user delete or a product edit on details whose resolved
\* id is empty pushes an error toast, issues no request and leaves the
\* collections, the favorites and the in-progress flags as they were
EmptyIdIsValidationError ==
  [][(EmptyIdUserEdit \/ EmptyIdUserDelete \/ EmptyIdProductEdit) =>
       /\ PushedOneError
       /\ AllReqs' = AllReqs
       /\ users' = users /\ products' = products
       /\ favoritedUsers' = favoritedUsers
       /\ AllFlags' = AllFlags]_vars

\* C3 witness: the delete of a user without id was refused and nothing is in
\* flight
EmptyIdDeleteRefused ==
  /\ userDetails # Null
  /\ userDetails[1].id = "" /\ userDetails[1]._id = ""
  /\ \E k \in 1..Len(toasts) :
       toasts[k].message = "User id is missing, cannot delete."
  /\ delReqs = <<>> /\ ~isDeletingUser

\* what the claim gives an edited user: each editable field is the submitted
\* value when that is non-empty, the prior value otherwise
EditedUser(u, d) ==
  [id |-> u.id, _id |-> u._id,
   fullName |-> IF d.fullName # "" THEN d.fullName ELSE u.fullName,
   email |-> IF d.email # <<>> THEN d.email ELSE u.email,
   mobile |-> IF d.mobile # "" THEN d.mobile ELSE u.mobile,
   address |-> IF d.address # "" THEN d.address ELSE u.address,
   gender |-> IF d.gender # "" THEN d.gender ELSE u.gender]

\* the photo submitted with a product edit: the picked file, shown as its
\* data URL, else the photo of the details, "" when the payload has none
SubmittedPhoto(q) == IF q.photo # Null THEN DataUrl(q.photo[1]) ELSE q.details.photo

\* the same for an edited product
EditedProduct(p, q) ==
  [id |-> p.id, _id |-> p._id,
   name |-> IF q.details.name # "" THEN q.details.name ELSE p.name,
   link |-> IF q.details.link # <<>> THEN q.details.link ELSE p.link,
   email |-> IF q.details.email # <<>> THEN q.details.email ELSE p.email,
   description |-> IF q.details.description # "" THEN q.details.description
                   ELSE p.description,
   photo |-> IF SubmittedPhoto(q) # "" THEN SubmittedPhoto(q) ELSE p.photo]

\* a step of handleUpdateUser that got a 2xx answer
UserEditSucceeds == \E r \in Responses : r.kind = "ok" /\ HandleUpdateUserDone(r)

\* a step of handleUpdateProduct that got a 2xx answer
ProductEditSucceeds ==
  \E r \in Responses : r.kind = "ok" /\ HandleUpdateProductDone(r)

\* the user half of C4
UserEditIsFieldwise ==
  UserEditSucceeds =>
    /\ Len(users') = Len(users)
    /\ \A k \in 1..Len(users) :
         users'[k] = IF ResolveId(users[k]) = updReqs[1].id
                       THEN EditedUser(users[k], updReqs[1].details)
                       ELSE users[k]

\* the product half of C4
ProductEditIsFieldwise ==
  ProductEditSucceeds =>
    /\ Len(products') = Len(products)
    /\ \A k \in 1..Len(products) :
         products'[k] = IF ResolveId(products[k]) = productUpdReqs[1].id
                          THEN EditedProduct(products[k], productUpdReqs[1])
                          ELSE products[k]

\* C4: a successful edit changes only the item whose resolved id is the
\* edited id; each editable field of it takes the submitted value when that is
\* non-empty and keeps its prior value otherwise; ids, length, order and the
\* other items stay
EditIsFieldwise == [][UserEditIsFieldwise /\ ProductEditIsFieldwise]_vars

\* answers that are a failed network call: a rejected request or a non-2xx
\* status
Failures == {r \in Responses : r.kind \in {"reject", "http"}}

\* a step that ends an edit, a delete or a favorite toggle whose call failed
MutationFails ==
  \/ \E r \in Failures : HandleUpdateUserDone(r)
  \/ \E r \in Failures : HandleDeleteUserDone(r)
  \/ \E r \in Failures : \E k \in 1..Len(favReqs) : HandleFavoriteDone(k, r)
  \/ \E r \in Failures : HandleUpdateProductDone(r)

\* C5: an edit, a delete or a favorite toggle whose network call fails pushes
\* exactly one error toast and leaves users, products and favoritedUsers as
\* they were
FailedMutationIsSkipped ==
  [][MutationFails =>
       /\ PushedOneError
       /\ users' = users /\ products' = products
       /\ favoritedUsers' = favoritedUsers]_vars

\* C5 witness: a delete failed on a list that has a favorite; the user is
\* still listed and still a favorite
FailedDeleteKeptUser ==
  /\ \E k \in 1..Len(toasts) :
       toasts[k].type = "error" /\ toasts[k].message = "Failed to delete user"
  /\ userDetails # Null
  /\ \E k \in 1..Len(users) : ResolveId(users[k]) = ResolveId(userDetails[1])
  /\ ResolveId(userDetails[1]) \in favoritedUsers

\* a step that ends a failed list fetch of one of the four list pages
LoadAllFails ==
  \/ \E r \in ListResponses :
       r.kind \in {"reject", "http"} /\ (FetchUsersDone(r) \/ UsersTableFetchDone(r))
  \/ \E r \in ProductListResponses :
       r.kind \in {"reject", "http"}
         /\ (FetchProductsDone(r) \/ ProductsTableFetchDone(r))

\* C6: a list fetch that fails leaves the collection as it was, pushes
\* exactly one error toast and sets the loading flag to false
FailedLoadKeepsCollection ==
  [][LoadAllFails =>
       /\ users' = users /\ usersUndefined' = usersUndefined
       /\ products' = products
       /\ PushedOneError
       /\ isLoading' = FALSE]_vars

\* C6 witness: the user list page after its fetch answered with a non-2xx
\* status
FailedLoadShown ==
  /\ screen = "list"
  /\ ~listPending /\ ~isLoading
  /\ users = <<>> /\ ~usersUndefined
  /\ Len(toasts) = 1
  /\ toasts[1].type = "error" /\ toasts[1].message = "Failed to fetch users"

\* the list a product list body carries
CarriedProducts(body) ==
  {l \in ProductListBodies :
     Some(l) \in {body.productData, body.products, body.data}}

\* C7: a list fetch that succeeds with a list in its body makes the
\* collection that list, items, order and ids alike, and pushes no toast
LoadReplacesCollection ==
  [][/\ \A r \in ListResponses :
          (/\ r.kind = "ok" /\ r.json /\ r.list # Null
           /\ (FetchUsersDone(r) \/ UsersTableFetchDone(r)))
            => (users' = r.list[1] /\ toasts' = toasts)
     /\ \A r \in ProductListResponses :
          (/\ r.kind = "ok" /\ r.json /\ CarriedProducts(r.body) # {}
           /\ (FetchProductsDone(r) \/ ProductsTableFetchDone(r)))
            => (products' \in CarriedProducts(r.body) /\ toasts' = toasts)]_vars

\* C7 witness: the body { userData: [the user with id "1"] } was loaded
LoadedOneUser ==
  /\ screen \in {"list", "users"}
  /\ ~listPending /\ ~isLoading
  /\ Len(users) = 1 /\ users[1].id = "1" /\ users[1].fullName = "Ann Lee"
  /\ toasts = <<>> /\ timers = <<>>
  /\ favoritedUsers = {} /\ InFlight = 0 /\ ~isModalOpen

\* the ids whose membership differs between two favorite sets
Flipped(a, b) == (a \ b) \cup (b \ a)

\* C8: a successful favorite toggle flips the membership of its id and of no
\* other id, so that a second successful toggle of the same id gives back the
\* set the first one started from
ToggleFlipsOnce ==
  [][\A k \in 1..Len(favReqs) : \A r \in Responses :
       (r.kind = "ok" /\ r.json /\ HandleFavoriteDone(k, r)) =>
         /\ Flipped(favoritedUsers, favoritedUsers') = {favReqs[k].userId}
         /\ Flipped(favoritedUsers',
                    ToggleFavorite(favoritedUsers', favReqs[k].userId))
              = {favReqs[k].userId}
         /\ ToggleFavorite(favoritedUsers', favReqs[k].userId) = favoritedUsers]_vars

\* C8 witness: the toggle that just succeeded took the only favorite out, so
\* it was the second successful toggle of that id
ToggledBack ==
  /\ favoritedUsers = {}
  /\ favReqs = <<>> /\ isFavoriting = Null
  /\ Len(users) = 1
  /\ \E k \in 1..Len(toasts) :
       /\ toasts[k].type = "success"
       /\ toasts[k].message = "Ann Lee added to favorites successfully!"

\* C9: the number of toasts shown is the number of pushes less the pushed
\* toasts that were dismissed or have expired; a toast whose timer has fired
\* counts on both sides, so the balance is taken over the armed timers
ActiveIsPushedLessGone == Len(toasts) = Len(timers) - Cardinality(dismissed)

\* C10: removeToast on the i-th toast takes that toast out and no other,
\* keeps the order of the rest, and a second removeToast of the same id
\* changes nothing
DismissIsLocal ==
  [][\A i \in 1..Len(toasts) :
       RemoveToast(i) =>
         /\ toasts' = DropAt(toasts, i)
         /\ FilterOutId(toasts', toasts[i].id) = toasts']_vars

\* handleUpdateUser runs on details whose email is not an address
MalformedEmailUserEdit ==
  /\ userDetails # Null
  /\ userDetails[1].email # <<>> /\ ~ValidEmail(userDetails[1].email)
  /\ HandleUpdateUser

\* handleUpdateProduct runs on details whose email is not an address
MalformedEmailProductEdit ==
  /\ productDetails # Null
  /\ productDetails[1].email # <<>> /\ ~ValidEmail(productDetails[1].email)
  /\ HandleUpdateProduct

\* the product half of C11
ProductEmailIsValidated ==
  MalformedEmailProductEdit =>
    /\ PushedOneError
    /\ AllReqs' = AllReqs
    /\ products' = products

\* C11: a user edit or a product edit whose email is malformed pushes an
\* error toast, issues no request and leaves the collection as it was
EmailIsValidated ==
  [][/\ MalformedEmailUserEdit =>
          (PushedOneError /\ AllReqs' = AllReqs /\ users' = users)
     /\ ProductEmailIsValidated]_vars

\* non-2xx answers with a JSON body that carries a message
Refusals == {r \in Responses : r.kind = "http" /\ r.json /\ r.message # ""}

\* C12: a delete answered with a non-2xx status and a JSON message m pushes
\* one error toast whose text is m, keeps the item of that id in users and
\* leaves users and favoritedUsers as they were
RefusedDeleteShowsMessage ==
  [][\A r \in Refusals :
       HandleDeleteUserDone(r) =>
         /\ PushedOneError
         /\ toasts'[Len(toasts')].message = r.message
         /\ users' = users
         /\ (\E k \in 1..Len(users) : ResolveId(users[k]) = delReqs[1])
              => (\E k \in 1..Len(users') : ResolveId(users'[k]) = delReqs[1])
         /\ favoritedUsers' = favoritedUsers]_vars

\* C12 witness: the delete of a favorite user was refused with "locked"; the
\* dialog is still up and the user is still listed and still a favorite
RefusedDeleteShown ==
  /\ showDeleteConfirm /\ ~isDeletingUser /\ delReqs = <<>>
  /\ userDetails # Null
  /\ \E k \in 1..Len(users) : ResolveId(users[k]) = ResolveId(userDetails[1])
  /\ ResolveId(userDetails[1]) \in favoritedUsers
  /\ Len(toasts) = 1
  /\ toasts[1].type = "error" /\ toasts[1].message = "locked"

\* the step ends a request of the modelled pages with the answer r
Answered(r) ==
  \/ \E q \in ListResponses :
       /\ q.kind = r.kind /\ q.json = r.json /\ q.message = r.message
       /\ (FetchUsersDone(q) \/ UsersTableFetchDone(q))
  \/ \E q \in ProductListResponses :
       /\ q.kind = r.kind /\ q.json = r.json /\ q.message = r.message
       /\ (FetchProductsDone(q) \/ ProductsTableFetchDone(q))
  \/ \E k \in 1..Len(detailReqs) : HandleUserClickDone(k, r)
  \/ \E k \in 1..Len(productReqs) : HandleEditClickDone(k, r)
  \/ \E k \in 1..Len(favReqs) : HandleFavoriteDone(k, r)
  \/ HandleUpdateUserDone(r)
  \/ HandleDeleteUserDone(r)
  \/ HandleUpdateProductDone(r)
  \/ HandleSubmitDone(r)

\* C13: whatever the operation, a non-2xx answer with a JSON message m pushes
\* one error toast whose text is m
ServerMessageIsShown ==
  [][\A r \in Refusals :
       Answered(r) =>
         /\ PushedOneError
         /\ toasts'[Len(toasts')].message = r.message]_vars

\* a step that ends a list fetch of the user list answered 2xx with a JSON
\* body that has no userData
LoadWithoutUserData ==
  \E r \in ListResponses :
    /\ r.kind = "ok" /\ r.json /\ r.list = Null
    /\ (FetchUsersDone(r) \/ UsersTableFetchDone(r))

\* C14: a 2xx answer of admin/list without userData pushes one error toast
\* and keeps the previous list, so users stays a list
MissingUserDataIsAnError ==
  [][LoadWithoutUserData =>
       /\ PushedOneError
       /\ users' = users
       /\ ~usersUndefined']_vars

\* a step that ends an edit, a delete or a product edit answered 2xx with a
\* body that does not parse as JSON
MutationAnsweredUnparseable ==
  \E r \in Responses :
    /\ r.kind = "ok" /\ ~r.json
    /\ \/ HandleUpdateUserDone(r)
       \/ HandleDeleteUserDone(r)
       \/ HandleUpdateProductDone(r)

\* C15: an edit, a delete or a product edit answered 2xx with an unparseable
\* body pushes one error toast and mutates neither the collection nor the
\* favorites
UnparseableSuccessIsAnError ==
  [][MutationAnsweredUnparseable =>
       /\ PushedOneError
       /\ users' = users
       /\ products' = products
       /\ favoritedUsers' = favoritedUsers]_vars

\* C16: a favorite toggle answered 2xx flips the membership of its id,
\* whether the body parses as JSON or not
ToggleFlipsOnAny2xx ==
  [][\A k \in 1..Len(favReqs) : \A r \in Responses :
       (r.kind = "ok" /\ HandleFavoriteDone(k, r)) =>
         Flipped(favoritedUsers, favoritedUsers') = {favReqs[k].userId}]_vars

\* the entries of ts that b kept, in the order of ts
KeptOf(ts, b) == SelectSeq(ts, LAMBDA t : \E k \in 1..Len(b) : b[k] = t)

\* C17: a push appends one entry at the end whatever is already shown, a
\* manual removal keeps the order of the entries that remain, and the firing
\* of a timer removes the entry that armed it and no other
ToastsInInsertionOrder ==
  [][/\ Len(timers') = Len(timers) + 1 =>
          /\ Len(toasts') = Len(toasts) + 1
          /\ SubSeq(toasts', 1, Len(toasts)) = toasts
     /\ (\E i \in 1..Len(toasts) : RemoveToast(i)) =>
          toasts' = KeptOf(toasts, toasts')
     /\ TimerFire =>
          toasts' = SelectSeq(toasts, LAMBDA t : t.timer # Head(timers).handle)]_vars

\* the toast armed with the timer handle h is shown
Shown(h) == \E k \in 1..Len(toasts) : toasts[k].timer = h

\* C18: the toast of a push is in the list right after the push, last and
\* with the timer the push armed, and every toast shown is eventually not
\* shown when the armed timers fire
EveryToastGoes ==
  /\ [][Len(timers') = Len(timers) + 1 =>
          /\ toasts' # <<>>
          /\ toasts'[Len(toasts')].timer = timers'[Len(timers')].handle]_vars
  /\ \A h \in 1..MaxArmed : Shown(h) ~> ~Shown(h)

\* C18 witness: of two toasts pushed on the login page the first is gone,
\* its timer has fired, and the second is still shown with its timer armed
FirstToastExpired ==
  /\ screen = "login"
  /\ Len(timers) = 1 /\ timers[1].handle = 2
  /\ Len(toasts) = 1 /\ toasts[1].timer = 2
  /\ dismissed = {}

\* an edit of one product is in flight and the details of another product,
\* which pass the checks of handleUpdateProduct, are open in the modal
EditPendingOtherProductOpen ==
  /\ screen = "products" /\ Calm /\ MayFetch
  /\ productUpdReqs # <<>>
  /\ isEditModalOpen /\ productDetails # Null
  /\ ProductValidationError(productDetails[1]) = ""
  /\ ResolveId(productDetails[1]) # productUpdReqs[1].id

\* handleUpdateUser / handleUpdateProduct can run and issue a request
CanIssueUserEdit ==
  ENABLED (HandleUpdateUser /\ Len(updReqs') = Len(updReqs) + 1)

CanIssueProductEdit ==
  ENABLED (HandleUpdateProduct /\ Len(productUpdReqs') = Len(productUpdReqs) + 1)

\* C19 as stated: while an edit of A is pending, an edit of B whose details
\* are open can be issued (on the products page, where the list has two
\* items with an id)
SecondEditCanBeIssued == EditPendingOtherProductOpen => CanIssueProductEdit

\* C19 amended: edits are serialised by isUpdatingUser / isUpdatingProduct, so
\* at most one edit is in flight on a page, the flag is up exactly while it is,
\* and no edit can be issued while the flag is up, whichever details are open
OneEditInFlight ==
  /\ Len(updReqs) <= 1 /\ Len(productUpdReqs) <= 1
  /\ isUpdatingUser <=> updReqs # <<>>
  /\ isUpdatingProduct <=> productUpdReqs # <<>>
  /\ isUpdatingUser => ~CanIssueUserEdit
  /\ isUpdatingProduct => ~CanIssueProductEdit

\* C19 witness: the edit of product p1 is pending while the details of
\* another product are open and pass the checks of the handler
EditPendingOtherOpen ==
  /\ EditPendingOtherProductOpen
  /\ isUpdatingProduct
  /\ productUpdReqs[1].id = "p1"

\* the step pushed exactly one toast, of kind success, after the ones shown
PushedOneSuccess ==
  /\ Len(toasts') = Len(toasts) + 1
  /\ SubSeq(toasts', 1, Len(toasts)) = toasts
  /\ toasts'[Len(toasts')].type = "success"

\* an update is in flight and its modal has been closed since the click
UserEditPendingClosed == screen = "list" /\ updReqs # <<>> /\ ~isModalOpen

ProductEditPendingClosed ==
  screen = "products" /\ productUpdReqs # <<>> /\ ~isEditModalOpen

\* the user half of C20
UserEditNotCancelled ==
  /\ [](UserEditPendingClosed /\ Calm => ENABLED UserEditSucceeds)
  /\ [][UserEditPendingClosed /\ UserEditSucceeds =>
          UserEditIsFieldwise /\ PushedOneSuccess]_vars

\* the request-and-toast part of the product half of C20
ProductEditNotDropped ==
  /\ [](ProductEditPendingClosed /\ Calm => ENABLED ProductEditSucceeds)
  /\ [][ProductEditPendingClosed /\ ProductEditSucceeds =>
          /\ PushedOneSuccess
          /\ productUpdReqs' = Tail(productUpdReqs)]_vars

\* C20: closing the modal does not cancel the update in flight; the request
\* can still succeed, and when it does the matching item takes the values
\* submitted at the click and one success toast is pushed
UpdateIsNotCancelled ==
  /\ UserEditNotCancelled
  /\ ProductEditNotDropped
  /\ [][ProductEditPendingClosed /\ ProductEditSucceeds =>
          ProductEditIsFieldwise]_vars

\* a flag that is up has its request in flight
FlagsHavePendingCalls ==
  /\ isLoading => listPending \/ loginPending \/ signupPending \/ addPhase # "idle"
  /\ isLoadingDetails => detailReqs # <<>>
  /\ isUpdatingUser => updReqs # <<>>
  /\ isDeletingUser => delReqs # <<>>
  /\ isFavoriting # Null => favReqs # <<>>
  /\ isLoadingProduct => productReqs # <<>>
  /\ isUpdatingProduct => productUpdReqs # <<>>

\* the steps in which a network call of the named flag resolves or rejects
LoadEnds ==
  \/ \E r \in ListResponses : FetchUsersDone(r) \/ UsersTableFetchDone(r)
  \/ \E r \in ProductListResponses : FetchProductsDone(r) \/ ProductsTableFetchDone(r)
  \/ \E r \in Responses :
       HandleSubmitDone(r) \/ SignupHandleSubmitDone(r) \/ AddProductHandleSubmitDone(r)
  \/ AddProductPhotoRead(FALSE)

DetailsEnd ==
  \E r \in Responses : \E k \in 1..Len(detailReqs) : HandleUserClickDone(k, r)

FavoriteEnds ==
  \E r \in Responses : \E k \in 1..Len(favReqs) : HandleFavoriteDone(k, r)

ProductDetailsEnd ==
  \E r \in Responses : \E k \in 1..Len(productReqs) : HandleEditClickDone(k, r)

\* C21: the flag of an operation is down once its network call has resolved
\* or rejected, whatever the answer, so a flag is up only while its call is in
\* flight and the operation can be started again
FlagsAreReset ==
  /\ []FlagsHavePendingCalls
  /\ [][/\ LoadEnds => ~isLoading'
        /\ DetailsEnd => ~isLoadingDetails'
        /\ (\E r \in Responses : HandleUpdateUserDone(r)) => ~isUpdatingUser'
        /\ (\E r \in Responses : HandleDeleteUserDone(r)) => ~isDeletingUser'
        /\ FavoriteEnds => isFavoriting' = Null
        /\ ProductDetailsEnd => ~isLoadingProduct'
        /\ (\E r \in Responses : HandleUpdateProductDone(r)) => ~isUpdatingProduct']_vars

\* C21 witness: on the add-product page the call was answered with a non-2xx
\* status; the error is shown, the flag is down and the form is still filled
AddProductFailedIdle ==
  /\ screen = "addproduct"
  /\ ~isLoading /\ addPhase = "idle"
  /\ photo # Null /\ newProduct.name # ""
  /\ \E k \in 1..Len(toasts) :
       toasts[k].message = "Failed to add product. Please try again"

\* the resolved ids of the items of a collection
IdsOf(items) == {ResolveId(items[k]) : k \in 1..Len(items)}

\* C22: once the list fetch of the page has resolved, no step adds an item:
\* the ids of users and of products stay among those they had and the lengths
\* do not grow
NoClientSideCreation ==
  [][~listPending =>
       /\ Len(users') <= Len(users) /\ IdsOf(users') \subseteq IdsOf(users)
       /\ Len(products') <= Len(products)
       /\ IdsOf(products') \subseteq IdsOf(products)]_vars

\* C22 witness: an edit of the second of the two users loaded has succeeded;
\* the list still holds the same two ids
EditedInPlace ==
  /\ screen = "list" /\ ~listPending
  /\ Len(users) = 2
  /\ IdsOf(users) = {"", "2"}
  /\ users[2]._id = "2" /\ users[2].fullName = "new"

\* handleSubmit of the signup page runs on fields that miss a required value
\* or hold an email the regular expression of the product pages refuses
InvalidSignupSubmit ==
  /\ \/ signup.fullName = "" \/ signup.mobile = "" \/ signup.address = ""
     \/ signup.gender = "" \/ ~ValidEmail(signup.email)
  /\ SignupHandleSubmit

\* the signup third of C23
SignupIsValidated ==
  InvalidSignupSubmit =>
    /\ PushedOneError
    /\ ~isLoading' /\ ~signupPending'
    /\ signup' = signup

\* the add-product third of C23
NewProductIsValidated ==
  (NewProductValidationError # "" /\ AddProductHandleSubmit) =>
    /\ PushedOneError
    /\ ~isLoading' /\ addPhase' = "idle"
    /\ newProduct' = newProduct /\ photo' = photo

\* the product-edit third of C23
ProductEditIsValidated ==
  (/\ productDetails # Null
   /\ ProductValidationError(productDetails[1]) # ""
   /\ HandleUpdateProduct) =>
    /\ PushedOneError
    /\ ~isUpdatingProduct' /\ AllReqs' = AllReqs
    /\ productDetails' = productDetails /\ products' = products

\* C23: on the signup, add-product and product-edit forms a submit that fails
\* a validation pushes one error toast, issues no request, leaves the
\* in-progress flag down and keeps the fields and the collection
FormsAreValidated ==
  [][SignupIsValidated /\ NewProductIsValidated /\ ProductEditIsValidated]_vars

\* the two thirds of C23 the code keeps
ProductFormsAreValidated ==
  [][NewProductIsValidated /\ ProductEditIsValidated]_vars

\* C24: no two toasts shown have the same id, and no two armed timers are
\* to remove the same id, so an id that showToast draws is never the id of a
\* toast whose timer is pending
ToastIdsAreUnique ==
  /\ \A i, j \in 1..Len(toasts) : i # j => toasts[i].id # toasts[j].id
  /\ \A i, j \in 1..Len(timers) : i # j => timers[i].id # timers[j].id

\* the Update button of the modal can be pressed while no details are held
UpdateWithoutDetails ==
  /\ screen = "list" /\ Calm
  /\ isModalOpen /\ ~(isUpdatingUser \/ isDeletingUser)
  /\ userDetails = Null

\* the Delete User button of the dialog can be pressed while no details are
\* held
DeleteWithoutDetails ==
  /\ screen = "list" /\ Calm
  /\ showDeleteConfirm /\ ~isDeletingUser
  /\ userDetails = Null

\* C25: pressing Update or confirming a delete while userDetails is null
\* pushes one error toast and issues no request
AbortWithoutDetailsNotifies ==
  /\ UpdateWithoutDetails =>
       /\ ENABLED (HandleUpdateUser /\ PushedOneError /\ AllReqs' = AllReqs)
       /\ ~ENABLED (HandleUpdateUser /\ AllReqs' # AllReqs)
  /\ DeleteWithoutDetails =>
       /\ ENABLED (HandleDeleteUser /\ PushedOneError /\ AllReqs' = AllReqs)
       /\ ~ENABLED (HandleDeleteUser /\ AllReqs' # AllReqs)

\* the half of C25 the code keeps: no request is issued without details
AbortWithoutDetailsIsLocal ==
  /\ UpdateWithoutDetails => ~ENABLED (HandleUpdateUser /\ AllReqs' # AllReqs)
  /\ DeleteWithoutDetails => ~ENABLED (HandleDeleteUser /\ AllReqs' # AllReqs)

\* the handles of the timers that are armed
ArmedHandles(ts) == {ts[k].handle : k \in 1..Len(ts)}

\* C26: removeToast on a toast disarms the timer of that toast, and a timer
\* that fires is never the timer of a toast that was dismissed
DismissalCancelsExpiry ==
  [][/\ \A i \in 1..Len(toasts) :
          RemoveToast(i) => toasts[i].timer \notin ArmedHandles(timers')
     /\ TimerFire => Head(timers).handle \notin dismissed]_vars

\* C27: every id of favoritedUsers is the id of an item of users
FavoritesAreListed == favoritedUsers \subseteq IdsOf(users)

\* C28: once no detail request is in flight, the details held are those of
\* the row that was clicked last
DetailsAreOfLastClick ==
  /\ (screen = "list" /\ detailReqs = <<>> /\ userDetails # Null) =>
       lastClick = Some(ResolveId(userDetails[1]))
  /\ (screen = "products" /\ productReqs = <<>> /\ productDetails # Null) =>
       lastClick = Some(ResolveId(productDetails[1]))

\* the modal of the user list shows the loaded details of the row clicked
\* last, and the update in flight is for another user
OtherUserOpen ==
  /\ updReqs # <<>>
  /\ isModalOpen /\ userDetails # Null
  /\ lastClick = Some(ResolveId(userDetails[1]))
  /\ updReqs[1].id # ResolveId(userDetails[1])

\* the same on the products page
OtherProductOpen ==
  /\ productUpdReqs # <<>>
  /\ isEditModalOpen /\ productDetails # Null
  /\ lastClick = Some(ResolveId(productDetails[1]))
  /\ productUpdReqs[1].id # ResolveId(productDetails[1])

\* C29: when the update of A completes while the modal shows the details of
\* another item B, the modal stays open and the details of B are kept
UpdateLeavesOtherModal ==
  [][/\ (OtherUserOpen /\ \E r \in Responses : HandleUpdateUserDone(r)) =>
          isModalOpen' /\ userDetails' = userDetails
     /\ (OtherProductOpen /\ \E r \in Responses : HandleUpdateProductDone(r)) =>
          isEditModalOpen' /\ productDetails' = productDetails]_vars

\* C30: every notification in the queue has a non-empty text, whatever the
\* screen and the outcome that pushed it
EveryToastHasText ==
  \A k \in 1..Len(toasts) : toasts[k].message # ""

====
